---- MODULE Spec2Model ----
(***************************************************************************)
(* Model of ml-model/scripts/detection.py (SkyScan): the training driver,  *)
(* the path builder, the voxel51 dataset splitter, the label-map builder,  *)
(* label-map persistence and the base-config downloader.                   *)
(*                                                                         *)
(* Paths, labels and file lines are TLA+ strings.  Python floats are IEEE  *)
(* binary64 values, modelled as exact fixed-point numbers that are rounded  *)
(* to 53 significant bits after every float operation.                     *)
(***************************************************************************)
EXTENDS Integers, Sequences, FiniteSets, TLC

VARIABLES
    dirs,          \* directories that exist on disk (normalised, no trailing "/")
    files,         \* regular files on disk: path |-> content
    filepaths,     \* the dict returned by the latest set_filenames call, or None
    ev,            \* the latest call of a function of the module: what it did
    dataset,       \* the voxel51 dataset: sequence of samples
    last_export,   \* the partitions exported by the latest export call, or None
    prev_export,   \* the export call before it when the dataset was not modified since
    class_names,   \* class_names of the latest create_detection_mapping call, or None
    mapping,       \* the mapping text that call returned, or None
    num_classes,   \* result of the latest get_num_classes_from_label_map, or None
    sample_len,    \* size computation of the splitter: len(view)
    training_percentage, \* the decimal literal passed as training_percentage
    train_len,     \* math.floor(sample_len * training_percentage), or None
    val_len        \* math.floor(sample_len * (1 - training_percentage)), or None

vars == <<dirs, files, filepaths, ev, dataset, last_export, prev_export,
          class_names, mapping, num_classes,
          sample_len, training_percentage, train_len, val_len>>

\* an optional value: None, or Some(x) with Get(Some(x)) = x
None == <<>>
Some(x) == <<x>>
Get(opt) == opt[1]

Min(a, b) == IF a < b THEN a ELSE b

(***************************************************************************)
(* IEEE 754 binary64 arithmetic on the values the splitter computes.       *)
(* A value is a fixed-point number of IntBits integer bits and FracBits    *)
(* fractional bits, held as Limbs digits of LimbBits bits each, the most   *)
(* significant first.  The sums, differences and products are exact; only  *)
(* Round53 rounds, as the hardware does after each operation.              *)
(***************************************************************************)
MantBits == 53
Limbs == 5
LimbBits == 13
FracBits == 60
Base == 2 ^ LimbBits
Width == Limbs * LimbBits
IntBits == Width - FracBits

Zeros(k) == SubSeq([i \in 1..k |-> 0], 1, k)

\* bit i of x, bit 1 being the most significant
Bit(x, i) ==
    (x[((i - 1) \div LimbBits) + 1] \div (2 ^ (LimbBits - 1 - ((i - 1) % LimbBits)))) % 2

\* the value of the first j bits of the k-th group of LimbBits bits
RECURSIVE LimbOfBits(_, _, _)
LimbOfBits(bits, k, j) ==
    IF j = 0 THEN 0
    ELSE 2 * LimbOfBits(bits, k, j - 1) + bits[(k - 1) * LimbBits + j]

\* the value whose bits are given, Width of them
FromBits(bits) == SubSeq([k \in 1..Limbs |-> LimbOfBits(bits, k, LimbBits)], 1, Limbs)

\* the binary digits of n, k of them
IntDigits(n, k) == SubSeq([i \in 1..k |-> (n \div (2 ^ (k - i))) % 2], 1, k)

\* the integer n (0 <= n < 2^IntBits) as a value
IntToBits(n) == FromBits(IntDigits(n, IntBits) \o Zeros(FracBits))

\* carries (or borrows) propagated from the last digit up
RECURSIVE NormFrom(_, _, _)
NormFrom(x, i, carry) ==
    IF i = 0 THEN <<>>
    ELSE Append(NormFrom(x, i - 1, (x[i] + carry) \div Base), (x[i] + carry) % Base)
Norm(x) == NormFrom(x, Limbs, 0)

\* exact sum (no overflow for the values that occur)
AddBits(a, b) == Norm([i \in 1..Limbs |-> a[i] + b[i]])

\* exact difference a - b, for a >= b
SubBits(a, b) == Norm([i \in 1..Limbs |-> a[i] - b[i]])

\* exact product of the integer n and x
MulInt(n, x) == Norm([i \in 1..Limbs |-> n * x[i]])

\* x with the bits after bit last cleared
KeepBits(x, last) ==
    SubSeq([k \in 1..Limbs |->
               IF k * LimbBits <= last THEN x[k]
               ELSE IF (k - 1) * LimbBits >= last THEN 0
                    ELSE x[k] - (x[k] % (2 ^ (k * LimbBits - last)))], 1, Limbs)

\* the value with bit last set and no other
UnitAt(last) ==
    SubSeq([k \in 1..Limbs |->
               IF ((last - 1) \div LimbBits) + 1 = k
               THEN 2 ^ (LimbBits - 1 - ((last - 1) % LimbBits)) ELSE 0], 1, Limbs)

\* round-to-nearest, ties-to-even, to MantBits significant bits
Round53(b) ==
    IF \A k \in 1..Limbs : b[k] = 0 THEN b
    ELSE LET p == CHOOSE i \in 1..Width :
                      Bit(b, i) = 1 /\ \A j \in 1..(i - 1) : Bit(b, j) = 0
             last == p + MantBits - 1
         IN IF last >= Width THEN b
            ELSE LET guard == Bit(b, last + 1)
                     sticky == \E j \in (last + 2)..Width : Bit(b, j) = 1
                 IN IF guard = 1 /\ (sticky \/ Bit(b, last) = 1)
                    THEN AddBits(KeepBits(b, last), UnitAt(last))
                    ELSE KeepBits(b, last)

\* 2^k mod den, by squaring
RECURSIVE Pow2Mod(_, _)
Pow2Mod(k, den) ==
    IF k = 0 THEN 1 % den
    ELSE (Pow2Mod(k \div 2, den) * Pow2Mod(k \div 2, den) * (IF k % 2 = 1 THEN 2 ELSE 1)) % den

\* the remainder left after k fractional bits of r/den (0 <= r < den)
DivRem(r, den, k) == (r * Pow2Mod(k, den)) % den

\* the fractional bits of r/den (0 <= r < den), k of them
DivBits(r, den, k) ==
    SubSeq([i \in 1..k |-> (2 * DivRem(r, den, i - 1)) \div den], 1, k)

\* float("num/den" written as a decimal literal): the nearest binary64 value.
\* The quotient is cut after FracBits bits; a non-zero remainder is kept as a
\* sticky last bit so that the rounding sees it.
FloatOfLiteral(lit) ==
    LET q == lit.num \div lit.den
        fr == DivBits(lit.num % lit.den, lit.den, FracBits)
        rem == DivRem(lit.num % lit.den, lit.den, FracBits)
        exact == IntDigits(q, IntBits) \o SubSeq(fr, 1, FracBits - 1)
                 \o <<IF rem # 0 THEN 1 ELSE fr[FracBits]>>
    IN Round53(FromBits(exact))

\* int * float
FloatMul(n, x) == Round53(MulInt(n, x))

\* 1 - float
OneMinus(x) == Round53(SubBits(IntToBits(1), x))

\* math.floor of a non-negative float: the value of its integer bits
RECURSIVE IntPart(_, _)
IntPart(x, k) == IF k = 0 THEN 0 ELSE 2 * IntPart(x, k - 1) + Bit(x, k)
MathFloor(x) == IntPart(x, IntBits)

\* train_len = math.floor(sample_len * training_percentage)
TrainLen(n, lit) == MathFloor(FloatMul(n, FloatOfLiteral(lit)))

\* val_len = math.floor(sample_len * (1 - training_percentage))
ValLen(n, lit) == MathFloor(FloatMul(n, OneMinus(FloatOfLiteral(lit))))

\* training_percentage=0.8, the default of the splitter
DefaultTrainingPercentage == [num |-> 8, den |-> 10]

\* the decimal literals a caller passes as training_percentage, in [0, 1]
FractionDen == 10
Fractions == {[num |-> k, den |-> FractionDen] : k \in 0..FractionDen}
SplitFractions == {[num |-> 5, den |-> 10], DefaultTrainingPercentage}

\* the largest number of "training"-tagged samples
MaxSampleLen == 12

\* <<sample_len, training_percentage, train_len, val_len>> for every input that
\* occurs, each computed once by the float operations above
SplitSizeTable ==
    {<<n, lit, TrainLen(n, lit), ValLen(n, lit)>> :
         n \in 0..MaxSampleLen, lit \in Fractions \cup SplitFractions}

\* <<train_len, val_len>> as lines 122 and 123 compute them
SplitSizes(n, lit) ==
    LET row == CHOOSE t \in SplitSizeTable : t[1] = n /\ t[2] = lit
    IN <<row[3], row[4]>>

(***************************************************************************)
(* Strings and the file system.                                            *)
(***************************************************************************)
CharAt(s, i) == SubSeq(s, i, i)

\* t in s (Python substring test)
Contains(s, t) ==
    \E i \in 1..(Len(s) - Len(t) + 1) : SubSeq(s, i, i + Len(t) - 1) = t

IsSpace(c) == c \in {" ", "\t", "\n"}

\* str.split(): the maximal runs of non-whitespace characters, in order
Split(s) ==
    LET starts == {i \in 1..Len(s) :
                      /\ ~IsSpace(CharAt(s, i))
                      /\ (i = 1 \/ IsSpace(CharAt(s, i - 1)))}
        endOf(i) == CHOOSE j \in i..Len(s) :
                        /\ \A k \in i..j : ~IsSpace(CharAt(s, k))
                        /\ (j = Len(s) \/ IsSpace(CharAt(s, j + 1)))
        nth(k) == CHOOSE i \in starts : Cardinality({j \in starts : j <= i}) = k
    IN SubSeq([k \in 1..Cardinality(starts) |-> SubSeq(s, nth(k), endOf(nth(k)))],
              1, Cardinality(starts))

\* a directory path without its trailing "/"
NormDir(path) ==
    IF Len(path) > 1 /\ CharAt(path, Len(path)) = "/"
    THEN SubSeq(path, 1, Len(path) - 1) ELSE path

\* os.path.dirname for a path without trailing "/"
Dirname(path) ==
    LET cut == CHOOSE i \in 1..Len(path) :
                   CharAt(path, i) = "/" /\ \A j \in (i + 1)..Len(path) : CharAt(path, j) # "/"
    IN IF cut = 1 THEN "/" ELSE SubSeq(path, 1, cut - 1)

\* the directory and all its ancestors below "/" (os.makedirs creates them all)
WithAncestors(path) ==
    {NormDir(path)} \cup
    {SubSeq(path, 1, i - 1) : i \in {j \in 2..Len(path) : CharAt(path, j) = "/"}}

\* os.path.isdir
IsDir(ds, path) == NormDir(path) \in ds

\* os.makedirs(path, exist_ok=True), as the exporter does for export_dir
Makedirs(ds, path) == ds \cup WithAncestors(path)

(***************************************************************************)
(* Inputs: training names, base_models.json, the dataset.                  *)
(***************************************************************************)
TrainingNames == {"run1", "d1"}

\* base_models.json as load_base_models_json returns it
BaseModels ==
    [k \in {"efficientdet-d0", "efficientdet-d1", "local-ssd"} |->
        CASE k = "efficientdet-d0" ->
                 [base_pipeline_file |-> "ssd_efficientdet_d0_512x512_coco17_tpu-8.config",
                  model_name |-> "efficientdet_d0_coco17_tpu-32",
                  pretrained_checkpoint |-> "efficientdet_d0_coco17_tpu-32.tar.gz"]
          [] k = "efficientdet-d1" ->
                 [base_pipeline_file |-> "ssd_efficientdet_d1_640x640_coco17_tpu-8.config",
                  model_name |-> "efficientdet_d1_coco17_tpu-32",
                  pretrained_checkpoint |-> "efficientdet_d1_coco17_tpu-32.tar.gz"]
          [] k = "local-ssd" ->
                 [base_pipeline_file |-> "ssd mobilenet v2.config",
                  model_name |-> "ssd_mobilenet_v2",
                  pretrained_checkpoint |-> "ssd_mobilenet_v2.tar.gz"]]

\* the values a caller may pass as chosen_model: the keys and one unknown key
ChosenModels == DOMAIN BaseModels \cup {"no-such-model"}

(***************************************************************************)
(* Path Builder: set_filenames.                                            *)
(***************************************************************************)
SetFilenamesSwappedDir(base_models, training_name, chosen_model) ==
    LET base_pipeline_file == base_models[chosen_model].base_pipeline_file
        model_name == base_models[chosen_model].model_name
    IN [train_record_file |-> "/tf/dataset-export/" \o training_name \o "/train/tf.records",
        val_record_file |-> "/tf/dataset-export/" \o training_name \o "/val/tf.records",
        val_export_dir |-> "/tf/dataset-export/" \o training_name \o "/val/",
        train_export_dir |-> "/tf/dataset-export/" \o training_name \o "/val/",
        model_export_dir |-> "/tf/model-export/" \o training_name \o "/",
        label_map_file |-> "/tf/dataset-export/" \o training_name \o "/label_map.pbtxt",
        model_dir |-> "/tf/training/" \o training_name \o "/",
        pretrained_checkpoint |-> base_models[chosen_model].pretrained_checkpoint,
        pipeline_file |-> "/tf/models/research/deploy/" \o base_pipeline_file,
        fine_tune_checkpoint |->
            "/tf/models/research/deploy/" \o model_name \o "/checkpoint/ckpt-0",
        base_pipeline_file |-> base_pipeline_file]

SetFilenames(base_models, training_name, chosen_model) ==
    LET base_pipeline_file == base_models[chosen_model].base_pipeline_file
        model_name == base_models[chosen_model].model_name
    IN [train_record_file |-> "/tf/dataset-export/" \o training_name \o "/train/tf.records",
        val_record_file |-> "/tf/dataset-export/" \o training_name \o "/val/tf.records",
        val_export_dir |-> "/tf/dataset-export/" \o training_name \o "/val/",
        train_export_dir |-> "/tf/dataset-export/" \o training_name \o "/train/",
        model_export_dir |-> "/tf/model-export/" \o training_name \o "/",
        label_map_file |-> "/tf/dataset-export/" \o training_name \o "/label_map.pbtxt",
        model_dir |-> "/tf/training/" \o training_name \o "/",
        pretrained_checkpoint |-> base_models[chosen_model].pretrained_checkpoint,
        pipeline_file |-> "/tf/models/research/deploy/" \o base_pipeline_file,
        fine_tune_checkpoint |->
            "/tf/models/research/deploy/" \o model_name \o "/checkpoint/ckpt-0",
        base_pipeline_file |-> base_pipeline_file]

\* the directory train_detection_model tests with os.path.isdir
UniqueNameCheckDir(training_name) == "/tf/ml-model/dataset-export/" \o training_name

(***************************************************************************)
(* The voxel51 (fiftyone) dataset and its view stages.  A sample carries   *)
(* its id, the per-sample random number fiftyone stores with it (_rand),   *)
(* its tags and its label field (None, or Some of the labels of its         *)
(* detections in order).  shuffle() and take() both order the view by      *)
(* randint mod _rand, where randint is drawn from a generator seeded with  *)
(* the stage's seed, or from the process-wide generator when no seed is    *)
(* given; take() then keeps the first `size` samples of that order.        *)
(***************************************************************************)
MaxRandInt == 4
RandInts == 1..MaxRandInt

\* random.Random(seed).randint(...): fixed by the seed
SeededRandint(seed) == 1 + (seed % MaxRandInt)

NewSample(i, tags, label) == [id |-> i, rand |-> i + 1, tags |-> tags, label |-> label]

\* dataset.match_tags(tag)
MatchTags(view, tag) == SelectSeq(view, LAMBDA s : tag \in s.tags)

\* the view sorted by randint mod _rand (a stable sort)
RandomOrder(view, randint) ==
    LET key(i) == randint % view[i].rand
        before(i, j) == key(i) < key(j) \/ (key(i) = key(j) /\ i < j)
        rank(i) == Cardinality({j \in 1..Len(view) : before(j, i)}) + 1
    IN SubSeq([k \in 1..Len(view) |->
                  view[CHOOSE i \in 1..Len(view) : rank(i) = k]], 1, Len(view))

\* view.shuffle(seed=seed)
Shuffle(view, seed) == RandomOrder(view, SeededRandint(seed))

\* view.limit(size)
Limit(view, size) == SubSeq(view, 1, Min(size, Len(view)))

\* view.skip(n)
Skip(view, n) == SubSeq(view, n + 1, Len(view))

\* view.take(size), the stage having drawn randint; a non-positive size gives
\* an empty view
Take(view, size, randint) ==
    IF size <= 0 THEN <<>> ELSE Limit(RandomOrder(view, randint), size)

Ids(view) == SubSeq([i \in 1..Len(view) |-> view[i].id], 1, Len(view))

(***************************************************************************)
(* Label Mapping Builder.                                                  *)
(***************************************************************************)
\* the inner loop of _create_list_of_class_names over one sample's detections.
\* The loop over a list is the loop over its first half followed, from the list
\* that leaves, by the loop over its second half; over one detection it is the
\* loop body.
RECURSIVE ScanDetectionsAdjacent(_, _)
ScanDetectionsAdjacent(detections, names) ==
    IF detections = <<>> THEN names
    ELSE IF Len(detections) = 1
         THEN IF names # <<>> /\ names[Len(names)] = detections[1]
              THEN names ELSE Append(names, detections[1])
         ELSE CHOOSE result \in
                  {ScanDetectionsAdjacent(
                       SubSeq(detections, (Len(detections) \div 2) + 1, Len(detections)), left) :
                   left \in {ScanDetectionsAdjacent(
                                 SubSeq(detections, 1, Len(detections) \div 2), names)}} : TRUE

RECURSIVE ScanDetections(_, _)
ScanDetections(detections, names) ==
    IF detections = <<>> THEN names
    ELSE IF Len(detections) = 1
         THEN IF \E i \in 1..Len(names) : names[i] = detections[1]
              THEN names ELSE Append(names, detections[1])
         ELSE CHOOSE result \in
                  {ScanDetections(
                       SubSeq(detections, (Len(detections) \div 2) + 1, Len(detections)), left) :
                   left \in {ScanDetections(
                                 SubSeq(detections, 1, Len(detections) \div 2), names)}} : TRUE

\* the outer loop: samples whose label field is None are skipped
RECURSIVE ScanSamples(_, _)
ScanSamples(view, names) ==
    IF view = <<>> THEN names
    ELSE ScanSamples(Tail(view),
             IF Head(view).label = None THEN names
             ELSE ScanDetections(Get(Head(view).label), names))

CreateListOfClassNames(view) == ScanSamples(view, <<>>)

\* for id, name in enumerate(class_names, start=1): msg.item.append(...)
LabelMapMsgFromZero(names) ==
    SubSeq([i \in 1..Len(names) |-> [id |-> i - 1, name |-> names[i]]], 1, Len(names))

LabelMapMsg(names) ==
    SubSeq([i \in 1..Len(names) |-> [id |-> i, name |-> names[i]]], 1, Len(names))

\* text_format.MessageToBytes: the lines of one item, fields in field-number
\* order (name = 1, id = 2)
ItemLines(item) ==
    <<"item {", "  name: \"" \o item.name \o "\"", "  id: " \o ToString(item.id), "}">>

LinesPerItem == 4

\* the text of the whole message, as its sequence of lines
MessageToText(msg) ==
    SubSeq([k \in 1..(LinesPerItem * Len(msg)) |->
               ItemLines(msg[((k - 1) \div LinesPerItem) + 1])[((k - 1) % LinesPerItem) + 1]],
           1, LinesPerItem * Len(msg))

\* text_format.Merge on the text of a StringIntLabelMap: the items back
ParseName(line) == SubSeq(line, Len("  name: \"") + 1, Len(line) - 1)
ParseId(line, maxId) == CHOOSE n \in 0..maxId : "  id: " \o ToString(n) = line
ParseText(lines) ==
    SubSeq([i \in 1..(Len(lines) \div LinesPerItem) |->
               [id |-> ParseId(lines[LinesPerItem * (i - 1) + 3], Len(lines)),
                name |-> ParseName(lines[LinesPerItem * (i - 1) + 2])]],
           1, Len(lines) \div LinesPerItem)

\* label_map_util._validate_label_map: ids >= 0, id 0 only for "background"
ValidLabelMap(items) ==
    \A i \in 1..Len(items) :
        items[i].id >= 0 /\ (items[i].id = 0 => items[i].name = "background")

\* label_map_util.convert_label_map_to_categories(label_map, max_num_classes,
\* use_display_name=True): items outside 1..max_num_classes are ignored, and of
\* several items with one id the first is kept
MaxNumClasses == 90
ConvertLabelMapToCategories(items, max_num_classes) ==
    LET kept == {i \in 1..Len(items) :
                    /\ 0 < items[i].id /\ items[i].id <= max_num_classes
                    /\ \A j \in 1..(i - 1) : items[j].id # items[i].id}
        nth(k) == CHOOSE i \in kept : Cardinality({j \in kept : j <= i}) = k
    IN SubSeq([k \in 1..Cardinality(kept) |-> items[nth(k)]], 1, Cardinality(kept))

\* label_map_util.create_category_index: dict keyed by category id
CreateCategoryIndex(categories) ==
    [id \in {categories[i].id : i \in 1..Len(categories)} |->
        CHOOSE c \in {categories[i] : i \in 1..Len(categories)} : c.id = id]

(***************************************************************************)
(* The operations.  Every call records in ev what it was given and did.    *)
(***************************************************************************)
WriteFile(fs, path, content) ==
    [p \in DOMAIN fs \cup {path} |-> IF p = path THEN content ELSE fs[p]]

\* train_detection_model(training_name, chosen_model).  The dict that
\* set_filenames returns is dropped and nothing is returned.
TrainDetectionModel(training_name, chosen_model) ==
    /\ ev' = [op |-> "train_detection_model",
              training_name |-> training_name,
              chosen_model |-> chosen_model,
              dirs_at_call |-> dirs,
              steps |->
                  IF IsDir(dirs, UniqueNameCheckDir(training_name))
                  THEN <<"isdir", "logging.error", "sys.exit">>
                  ELSE IF chosen_model \notin DOMAIN BaseModels
                       THEN <<"isdir", "load_base_models_json", "set_filenames">>
                       ELSE <<"isdir", "load_base_models_json", "set_filenames", "return">>,
              outcome |->
                  IF IsDir(dirs, UniqueNameCheckDir(training_name)) THEN "exit 1"
                  ELSE IF chosen_model \notin DOMAIN BaseModels THEN "KeyError"
                       ELSE "return"]
    /\ UNCHANGED <<dirs, files, filepaths, dataset, last_export, prev_export,
                   class_names, mapping, num_classes,
                   sample_len, training_percentage, train_len, val_len>>

\* filepaths = set_filenames(load_base_models_json(), training_name, chosen_model),
\* called by the user of the module to obtain the dict the other steps take
SetFilenamesCall(training_name, chosen_model) ==
    /\ IF chosen_model \in DOMAIN BaseModels
       THEN /\ filepaths' = Some(SetFilenames(BaseModels, training_name, chosen_model))
            /\ ev' = [op |-> "set_filenames", training_name |-> training_name,
                      chosen_model |-> chosen_model, outcome |-> "return"]
       ELSE /\ filepaths' = filepaths
            /\ ev' = [op |-> "set_filenames", training_name |-> training_name,
                      chosen_model |-> chosen_model, outcome |-> "KeyError"]
    /\ UNCHANGED <<dirs, files, dataset, last_export, prev_export,
                   class_names, mapping, num_classes,
                   sample_len, training_percentage, train_len, val_len>>

\* export_voxel51_dataset_to_tfrecords(dataset_name, filepaths, label_field,
\* training_percentage).  Each take() stage draws its own randint from the
\* process-wide generator (no seed is passed).  The exporter creates export_dir
\* and writes tf.records into it.
ExportVoxel51DatasetToTfrecords(lit) ==
    /\ filepaths # None
    /\ \E view \in {Shuffle(MatchTags(dataset, "training"), 51)} :
       \E tl \in {SplitSizes(Len(view), lit)[1]}, vl \in {SplitSizes(Len(view), lit)[2]} :
       \E r1 \in RandInts, r2 \in RandInts :
            LET val_view == Take(view, vl, r1)
                train_view == Take(Skip(view, vl), tl, r2)
            IN /\ sample_len' = Len(view)
               /\ training_percentage' = lit
               /\ train_len' = Some(tl)
               /\ val_len' = Some(vl)
               /\ dirs' = Makedirs(Makedirs(dirs, Get(filepaths).val_export_dir),
                                   Get(filepaths).train_export_dir)
               /\ files' = WriteFile(WriteFile(files,
                                               Get(filepaths).val_export_dir \o "tf.records",
                                               Ids(val_view)),
                                     Get(filepaths).train_export_dir \o "tf.records",
                                     Ids(train_view))
               /\ last_export' = Some([training_percentage |-> lit,
                                       dataset |-> dataset,
                                       view |-> Ids(view),
                                       val_len |-> vl,
                                       train_len |-> tl,
                                       val |-> Ids(val_view),
                                       train |-> Ids(train_view)])
               /\ prev_export' = last_export
               /\ ev' = [op |-> "export_voxel51_dataset_to_tfrecords", outcome |-> "return"]
    /\ UNCHANGED <<filepaths, dataset, class_names, mapping, num_classes>>

\* create_detection_mapping(dataset_name, label_field)
CreateDetectionMapping ==
    /\ LET view == Shuffle(MatchTags(dataset, "training"), 2021)
       IN /\ class_names' = Some(CreateListOfClassNames(view))
          /\ mapping' = Some(MessageToText(LabelMapMsg(CreateListOfClassNames(view))))
          /\ ev' = [op |-> "create_detection_mapping", view |-> view, outcome |-> "return"]
    /\ UNCHANGED <<dirs, files, filepaths, dataset, last_export, prev_export, num_classes,
                   sample_len, training_percentage, train_len, val_len>>

\* save_mapping_to_file(mapping, filepaths): open(..., "w") fails when the
\* parent directory does not exist
SaveMappingToFile ==
    /\ mapping # None
    /\ filepaths # None
    /\ IF IsDir(dirs, Dirname(Get(filepaths).label_map_file))
       THEN /\ files' = WriteFile(files, Get(filepaths).label_map_file, Get(mapping))
            /\ ev' = [op |-> "save_mapping_to_file", outcome |-> "return"]
       ELSE /\ files' = files
            /\ ev' = [op |-> "save_mapping_to_file", outcome |-> "FileNotFoundError"]
    /\ UNCHANGED <<dirs, filepaths, dataset, last_export, prev_export,
                   class_names, mapping, num_classes,
                   sample_len, training_percentage, train_len, val_len>>

\* get_num_classes_from_label_map(filepaths)
GetNumClassesFromLabelMap ==
    /\ filepaths # None
    /\ IF Get(filepaths).label_map_file \notin DOMAIN files
       THEN /\ num_classes' = num_classes
            /\ ev' = [op |-> "get_num_classes_from_label_map", outcome |-> "NotFoundError"]
       ELSE LET label_map == ParseText(files[Get(filepaths).label_map_file])
                categories == ConvertLabelMapToCategories(label_map, MaxNumClasses)
                category_index == CreateCategoryIndex(categories)
            IN IF ValidLabelMap(label_map)
               THEN /\ num_classes' = Some(Cardinality(DOMAIN category_index))
                    /\ ev' = [op |-> "get_num_classes_from_label_map",
                              outcome |-> "return",
                              category_index |-> category_index]
               ELSE /\ num_classes' = num_classes
                    /\ ev' = [op |-> "get_num_classes_from_label_map",
                              outcome |-> "ValueError"]
    /\ UNCHANGED <<dirs, files, filepaths, dataset, last_export, prev_export,
                   class_names, mapping,
                   sample_len, training_percentage, train_len, val_len>>

\* download_base_training_config(filepaths): subprocess.run(argv, check=True)
\* runs the helper once and raises CalledProcessError on a non-zero exit status
ConfigUrlBase ==
    "https://raw.githubusercontent.com/tensorflow/models/master/research/object_detection/configs/tf2/"
HelperScript == "./install_base_training_config.sh"
MaxExitCode == 1
DownloadBaseTrainingConfig ==
    /\ filepaths # None
    /\ \E exit_code \in 0..MaxExitCode :
         ev' = [op |-> "download_base_training_config",
                config_file_url |-> ConfigUrlBase \o Get(filepaths).base_pipeline_file,
                runs |-> <<Split(HelperScript \o " " \o ConfigUrlBase
                                 \o Get(filepaths).base_pipeline_file)>>,
                exit_code |-> exit_code,
                finished |-> (exit_code = 0),
                outcome |-> IF exit_code = 0 THEN "return" ELSE "CalledProcessError"]
    /\ UNCHANGED <<dirs, files, filepaths, dataset, last_export, prev_export,
                   class_names, mapping, num_classes,
                   sample_len, training_percentage, train_len, val_len>>

\* the size computation of the splitter alone (detection.py:121-123)
ComputeSplitSizes ==
    /\ train_len' = Some(SplitSizes(sample_len, training_percentage)[1])
    /\ val_len' = Some(SplitSizes(sample_len, training_percentage)[2])
    /\ ev' = [op |-> "split_sizes", outcome |-> "return"]
    /\ UNCHANGED <<dirs, files, filepaths, dataset, last_export, prev_export,
                   class_names, mapping, num_classes, sample_len, training_percentage>>

(***************************************************************************)
(* The environment: other programs using the disk and the dataset store.   *)
(***************************************************************************)
\* something creates the directory train_detection_model looks at
EnvMakeCheckedDir(training_name) ==
    /\ ~IsDir(dirs, UniqueNameCheckDir(training_name))
    /\ dirs' = Makedirs(dirs, UniqueNameCheckDir(training_name))
    /\ ev' = [op |-> "env", outcome |-> "return"]
    /\ UNCHANGED <<files, filepaths, dataset, last_export, prev_export,
                   class_names, mapping, num_classes,
                   sample_len, training_percentage, train_len, val_len>>

MaxSamples == 4
\* a sample is added to the dataset
EnvAddSample(tags, label) ==
    /\ Len(dataset) < MaxSamples
    /\ dataset' = Append(dataset, NewSample(Len(dataset) + 1, tags, label))
    /\ ev' = [op |-> "env", outcome |-> "return"]
    /\ UNCHANGED <<dirs, files, filepaths, last_export, prev_export,
                   class_names, mapping, num_classes,
                   sample_len, training_percentage, train_len, val_len>>

(***************************************************************************)
(* Specifications.                                                         *)
(***************************************************************************)
NoEvent == [op |-> "none", outcome |-> "none"]

Labels == {"cat", "dog"}
\* the values of a sample's label field: None, or the labels of its detections
LabelFieldValues ==
    {None, Some(<<>>)} \cup {Some(<<a>>) : a \in Labels}
    \cup {Some(<<a, b>>) : a \in Labels, b \in Labels}
    \cup {Some(<<"cat", "dog", "cat">>)}

\* The driver, the path builder, the export and the download on one disk.
MainDataset ==
    <<NewSample(1, {"training"}, Some(<<"cat">>)),
      NewSample(2, {"training"}, Some(<<"dog", "cat">>)),
      NewSample(3, {}, Some(<<"dog">>))>>

Init ==
    /\ dirs = {}
    /\ files = <<>>
    /\ filepaths = None
    /\ ev = NoEvent
    /\ dataset = MainDataset
    /\ last_export = None
    /\ prev_export = None
    /\ class_names = None
    /\ mapping = None
    /\ num_classes = None
    /\ sample_len = 0
    /\ training_percentage = DefaultTrainingPercentage
    /\ train_len = None
    /\ val_len = None

Next ==
    \/ \E training_name \in TrainingNames, chosen_model \in ChosenModels :
           TrainDetectionModel(training_name, chosen_model)
    \/ \E training_name \in TrainingNames, chosen_model \in ChosenModels :
           SetFilenamesCall(training_name, chosen_model)
    \/ ExportVoxel51DatasetToTfrecords(DefaultTrainingPercentage)
    \/ DownloadBaseTrainingConfig
    \/ \E training_name \in TrainingNames : EnvMakeCheckedDir(training_name)

Spec == Init /\ [][Next]_vars

\* The size computation of the splitter as a function of its two inputs.
InitSizes ==
    /\ dirs = {}
    /\ files = <<>>
    /\ filepaths = None
    /\ ev = NoEvent
    /\ dataset = <<>>
    /\ last_export = None
    /\ prev_export = None
    /\ class_names = None
    /\ mapping = None
    /\ num_classes = None
    /\ sample_len \in 0..MaxSampleLen
    /\ training_percentage \in Fractions \cup SplitFractions
    /\ train_len = None
    /\ val_len = None

NextSizes == ComputeSplitSizes

SpecSizes == InitSizes /\ [][NextSizes]_vars

\* The splitter on a dataset that grows between exports.
InitSplit ==
    /\ dirs = {}
    /\ files = <<>>
    /\ filepaths = Some(SetFilenames(BaseModels, "run1", "efficientdet-d0"))
    /\ ev = NoEvent
    /\ dataset = <<>>
    /\ last_export = None
    /\ prev_export = None
    /\ class_names = None
    /\ mapping = None
    /\ num_classes = None
    /\ sample_len = 0
    /\ training_percentage = DefaultTrainingPercentage
    /\ train_len = None
    /\ val_len = None

NextSplit ==
    \/ \E lit \in SplitFractions : ExportVoxel51DatasetToTfrecords(lit)
    \/ \E tags \in {{}, {"training"}} : EnvAddSample(tags, None)

SpecSplit == InitSplit /\ [][NextSplit]_vars

\* The label-map builder, writer and reader on one dataset: every dataset of up
\* to MaxMapSamples samples over Labels, and datasets of one sample with many
\* classes.
MaxMapSamples == 2
MaxWideClasses == 91
RECURSIVE SampleSeqs(_)
SampleSeqs(n) ==
    IF n = 0 THEN {<<>>}
    ELSE SampleSeqs(n - 1) \cup
         {Append(d, NewSample(n, tags, label)) :
              d \in {e \in SampleSeqs(n - 1) : Len(e) = n - 1},
              tags \in {{}, {"training"}},
              label \in LabelFieldValues}
WideSample(n) ==
    NewSample(1, {"training"},
              Some(SubSeq([i \in 1..n |-> "class" \o ToString(i)], 1, n)))
MapDatasets ==
    SampleSeqs(MaxMapSamples)
    \cup {<<WideSample(n)>> : n \in (MaxNumClasses - 1)..MaxWideClasses}

InitMap ==
    /\ dirs \in {{}, WithAncestors("/tf/dataset-export/run1/")}
    /\ files = <<>>
    /\ filepaths = Some(SetFilenames(BaseModels, "run1", "efficientdet-d0"))
    /\ ev = NoEvent
    /\ dataset \in MapDatasets
    /\ last_export = None
    /\ prev_export = None
    /\ class_names = None
    /\ mapping = None
    /\ num_classes = None
    /\ sample_len = 0
    /\ training_percentage = DefaultTrainingPercentage
    /\ train_len = None
    /\ val_len = None

NextMap ==
    \/ CreateDetectionMapping
    \/ SaveMappingToFile
    \/ GetNumClassesFromLabelMap

SpecMap == InitMap /\ [][NextMap]_vars

(***************************************************************************)
(* Properties.                                                             *)
(***************************************************************************)
IsInjective(seq) == \A i \in 1..Len(seq), j \in 1..Len(seq) : seq[i] = seq[j] => i = j
Range(seq) == {seq[i] : i \in 1..Len(seq)}

\* the directory under which set_filenames places train_export_dir,
\* val_export_dir and label_map_file for a training name
ExportRootOf(training_name) ==
    Dirname(SetFilenames(BaseModels, training_name, "efficientdet-d0").label_map_file)

\* C1: whenever a directory exists at the per-run dataset export root of
\* training_name, train_detection_model(training_name, ...) exits with status 1
\* straight after the directory test: no base-model configuration is loaded, no
\* path is computed.
C1_DuplicateNameFailsFast ==
    ev.op = "train_detection_model" =>
        (IsDir(ev.dirs_at_call, ExportRootOf(ev.training_name)) =>
            /\ ev.outcome = "exit 1"
            /\ ev.steps = <<"isdir", "logging.error", "sys.exit">>)

\* C2 as stated: for every training_name and every key of base_models, all
\* values of the dict set_filenames returns are pairwise distinct and every one
\* contains training_name as a substring.
C2_AllPathsDistinctAndNamed ==
    (ev.op = "set_filenames" /\ ev.outcome = "return") =>
        /\ \A k1 \in DOMAIN Get(filepaths), k2 \in DOMAIN Get(filepaths) :
               k1 # k2 => Get(filepaths)[k1] # Get(filepaths)[k2]
        /\ \A k \in DOMAIN Get(filepaths) : Contains(Get(filepaths)[k], ev.training_name)

NameScopedKeys ==
    {"train_record_file", "val_record_file", "val_export_dir", "train_export_dir",
     "model_export_dir", "label_map_file", "model_dir"}

\* C2 amended: the seven values set_filenames builds from training_name are
\* pairwise distinct and each contains training_name as a substring; the other
\* four values are exactly what the base-model entry gives, whatever the name.
C2_NameScopedPathsDistinctAndNamed ==
    (ev.op = "set_filenames" /\ ev.outcome = "return") =>
        /\ NameScopedKeys \subseteq DOMAIN Get(filepaths)
        /\ \A k1 \in NameScopedKeys, k2 \in NameScopedKeys :
               k1 # k2 => Get(filepaths)[k1] # Get(filepaths)[k2]
        /\ \A k \in NameScopedKeys : Contains(Get(filepaths)[k], ev.training_name)
        /\ \A other \in TrainingNames :
               \A k \in DOMAIN Get(filepaths) \ NameScopedKeys :
                   Get(filepaths)[k] = SetFilenames(BaseModels, other, ev.chosen_model)[k]

C2_Witness ==
    /\ ev.op = "set_filenames"
    /\ ev.outcome = "return"
    /\ ev.training_name = "run1"
    /\ ev.chosen_model = "efficientdet-d1"
    /\ filepaths # None

\* C3: for every filtered-set size N and training fraction f in [0, 1],
\* train_len = floor(N*f), val_len = floor(N*(1-f)), val_len + train_len <= N,
\* and val_len + train_len < N only when flooring discards a fractional part,
\* the shortfall being at most 1.
C3_SplitSizesAreFloors ==
    train_len # None =>
        LET n == sample_len
            num == training_percentage.num
            den == training_percentage.den
        IN /\ Get(train_len) = (n * num) \div den
           /\ Get(val_len) = (n * (den - num)) \div den
           /\ Get(val_len) + Get(train_len) <= n
           /\ Get(val_len) + Get(train_len) < n =>
                  /\ (n * num) % den # 0 \/ (n * (den - num)) % den # 0
                  /\ n - (Get(val_len) + Get(train_len)) <= 1

\* C4: with training_percentage = 0.8 and 10 samples, train_len = 8 and
\* val_len = 2: no sample is left over.
C4_EightTwoOfTen ==
    (train_len # None /\ sample_len = 10 /\ training_percentage = DefaultTrainingPercentage) =>
        /\ Get(train_len) = 8
        /\ Get(val_len) = 2
        /\ Get(train_len) + Get(val_len) = sample_len

\* C5: the validation partition exported is exactly the first val_len samples
\* of the shuffled view and the training partition exactly the next train_len;
\* the two are disjoint subsets of the view and the samples beyond position
\* val_len + train_len are in neither.
C5_PartitionsAreConsecutiveSlices ==
    last_export # None =>
        LET e == Get(last_export)
        IN /\ e.val = SubSeq(e.view, 1, e.val_len)
           /\ e.train = SubSeq(e.view, e.val_len + 1, e.val_len + e.train_len)
           /\ Range(e.val) \cap Range(e.train) = {}
           /\ Range(e.val) \cup Range(e.train) \subseteq Range(e.view)
           /\ \A i \in (e.val_len + e.train_len + 1)..Len(e.view) :
                  e.view[i] \notin Range(e.val) \cup Range(e.train)

\* the positions <<sample, detection>> of the labels a scan of the view meets,
\* and the label at a position
ScanPositions(view) ==
    {<<i, d>> : i \in 1..Len(view), d \in 1..MaxWideClasses} \cap
    UNION {{<<i, d>> : d \in 1..Len(Get(view[i].label))} :
               i \in {j \in 1..Len(view) : view[j].label # None}}
LabelAt(view, pos) == Get(view[pos[1]].label)[pos[2]]
ScanBefore(p, q) == p[1] < q[1] \/ (p[1] = q[1] /\ p[2] < q[2])
FirstPosition(view, label) ==
    CHOOSE p \in ScanPositions(view) :
        /\ LabelAt(view, p) = label
        /\ \A q \in ScanPositions(view) : LabelAt(view, q) = label => ~ScanBefore(q, p)

\* C6: the list _create_list_of_class_names returns holds exactly the labels of
\* the detections of the samples whose label field is not None, holds none
\* twice, and orders them by first occurrence in the scan.
C6_ClassNamesFirstOccurrence ==
    ev.op = "create_detection_mapping" =>
        LET names == Get(class_names)
        IN /\ Range(names) = {LabelAt(ev.view, p) : p \in ScanPositions(ev.view)}
           /\ IsInjective(names)
           /\ \A i \in 1..(Len(names) - 1) :
                  ScanBefore(FirstPosition(ev.view, names[i]),
                             FirstPosition(ev.view, names[i + 1]))

C6_Witness ==
    /\ ev.op = "create_detection_mapping"
    /\ Get(class_names) = <<"cat", "dog">>
    /\ \E i \in 1..Len(ev.view) : ev.view[i].label = None
    /\ \E p \in ScanPositions(ev.view), q \in ScanPositions(ev.view),
          r \in ScanPositions(ev.view) :
           /\ ScanBefore(p, q) /\ ScanBefore(q, r)
           /\ LabelAt(ev.view, p) = "cat"
           /\ LabelAt(ev.view, q) = "dog"
           /\ LabelAt(ev.view, r) = "cat"

\* C7: the mapping text holds one entry per class name, the i-th (from 1) with
\* id i: the ids are exactly 1..len(class_names), none is 0, none is used twice;
\* a scan meeting cat, dog, cat gives {1: cat, 2: dog}.
C7_IdsCountFromOne ==
    ev.op = "create_detection_mapping" =>
        LET names == Get(class_names)
            items == ParseText(Get(mapping))
        IN /\ Len(items) = Len(names)
           /\ \A i \in 1..Len(items) : items[i].id = i /\ items[i].name = names[i]
           /\ {items[i].id : i \in 1..Len(items)} = 1..Len(names)
           /\ IsInjective(items)
           /\ names = <<"cat", "dog">> =>
                  Get(mapping) = <<"item {", "  name: \"cat\"", "  id: 1", "}",
                                   "item {", "  name: \"dog\"", "  id: 2", "}">>

C7_Witness ==
    /\ ev.op = "create_detection_mapping"
    /\ Len(ev.view) = 2
    /\ ev.view[1].label = Some(<<"cat", "dog">>)
    /\ ev.view[2].label = Some(<<"cat">>)
    /\ ParseText(Get(mapping)) = <<[id |-> 1, name |-> "cat"], [id |-> 2, name |-> "dog"]>>

\* C8: after create_detection_mapping, save_mapping_to_file and
\* get_num_classes_from_label_map on the same filepaths, the count returned is
\* the number of classes in the list and the ids read back are the ids written,
\* for any number of classes.
C8_CountRoundTrip ==
    (/\ ev.op = "get_num_classes_from_label_map"
     /\ ev.outcome = "return"
     /\ mapping # None
     /\ files[Get(filepaths).label_map_file] = Get(mapping)) =>
        /\ Get(num_classes) = Len(Get(class_names))
        /\ \A i \in 1..Len(Get(class_names)) :
               /\ i \in DOMAIN ev.category_index
               /\ ev.category_index[i].name = Get(class_names)[i]

\* C9: two successive exports with the same training_percentage over a dataset
\* that was not modified in between export the same validation partition and
\* the same training partition, in the same order.
C9_SuccessiveExportsAgree ==
    (/\ last_export # None
     /\ prev_export # None
     /\ Get(prev_export).training_percentage = Get(last_export).training_percentage
     /\ Get(prev_export).dataset = Get(last_export).dataset) =>
        /\ Get(prev_export).val = Get(last_export).val
        /\ Get(prev_export).train = Get(last_export).train

\* C10: download_base_training_config runs the helper script exactly once, with
\* the single argument (base URL + base_pipeline_file); a non-zero exit status
\* raises and the 'finished' step is not reached; it returns only on status 0.
C10_HelperRunOnceWithUrl ==
    ev.op = "download_base_training_config" =>
        /\ Len(ev.runs) = 1
        /\ ev.runs[1] = <<HelperScript, ConfigUrlBase \o Get(filepaths).base_pipeline_file>>
        /\ ev.exit_code # 0 => (ev.outcome = "CalledProcessError" /\ ~ev.finished)
        /\ ev.outcome = "return" => ev.exit_code = 0

====
